---- MODULE Spec2Model ----
(***************************************************************************)
(* Model of internal/utils/utils.go of terraform-provider-civo:            *)
(*   - RetryUntilSuccessOrTimeout as a state machine over its loop,        *)
(*   - the validators, ResourceCommonParseID and StringToInt as operators  *)
(*     applied to inputs drawn from bounded sets.                          *)
(* Strings are sequences of one-character strings.  Time is counted in     *)
(* clock ticks; time.Sleep(interval) takes Max(interval, 0) ticks, an      *)
(* invocation of fn between dlo and d ticks, everything else no time.      *)
(***************************************************************************)
EXTENDS Integers, Sequences, FiniteSets

VARIABLES
    pc,        \* position in RetryUntilSuccessOrTimeout: "call", "test", "done" ("idle": not running)
    interval,  \* argument interval
    timeout,   \* argument timeout
    dlo,       \* least duration of one invocation of fn
    d,         \* greatest duration of one invocation of fn
    elapsed,   \* time.Since(start)
    err,       \* local err: the result of the latest fn()
    result,    \* the value RetryUntilSuccessOrTimeout returned ("none" while running)
    trace,     \* the invocations of fn ("ok", "fail") and the sleeps ("sleep"), in order
    input,     \* argument of the pure function under call
    op,        \* the pure function that was called ("none" before the call)
    out        \* what it returned

vars == <<pc, interval, timeout, dlo, d, elapsed, err, result, trace, input, op, out>>

retryVars == <<pc, interval, timeout, dlo, d, elapsed, err, result, trace>>
utilVars == <<input, op, out>>

----------------------------------------------------------------------------
(* Bounds *)

MaxTimeout == 3
MaxInterval == 2
MaxD == 2

\* Invocations allowed in one run.  A run in which every failed iteration
\* advances the clock makes at most timeout + 2 invocations, so this limit
\* cuts only runs that loop without the clock advancing.
MaxCalls == MaxTimeout + 3

Max(a, b) == IF a >= b THEN a ELSE b

----------------------------------------------------------------------------
(* RetryUntilSuccessOrTimeout *)

NilErr == "nil"
FnErrors == {"e1", "e2"}
TimeoutErr == "timeout reached"

Intervals == (0 - 1)..MaxInterval
Timeouts == (0 - 1)..MaxTimeout

CountOf(ev) == Cardinality({i \in 1..Len(trace) : trace[i] = ev})
calls == CountOf("ok") + CountOf("fail")
sleeps == CountOf("sleep")

\* time.Sleep: a negative or zero duration returns immediately.
SleepTicks(iv) == Max(iv, 0)

\* Variant: the deadline test fires two ticks late.
DeadlinePassedLate == elapsed > timeout + 2

\* time.Since(start) > timeout
DeadlinePassed == elapsed > timeout

RetryInit ==
    /\ interval \in Intervals
    /\ timeout \in Timeouts
    /\ d \in 0..MaxD
    /\ dlo \in 0..d
    /\ pc = "call"
    /\ elapsed = 0
    /\ err = NilErr
    /\ result = "none"
    /\ trace = <<>>
    /\ input = <<>>
    /\ op = "none"
    /\ out = <<>>

\* Variant: the deadline is tested before fn is invoked.
FnCallDeadlineFirst ==
    /\ pc = "call"
    /\ calls < MaxCalls
    /\ IF DeadlinePassed
          THEN /\ result' = TimeoutErr
               /\ pc' = "done"
               /\ UNCHANGED <<elapsed, err, trace>>
          ELSE /\ \E dur \in dlo..d, e \in {NilErr} \cup FnErrors :
                     /\ elapsed' = elapsed + dur
                     /\ err' = e
                     /\ trace' = Append(trace, IF e = NilErr THEN "ok" ELSE "fail")
               /\ pc' = "test"
               /\ UNCHANGED result
    /\ UNCHANGED <<interval, timeout, dlo, d, utilVars>>

\* err := fn()
FnCall ==
    /\ pc = "call"
    /\ calls < MaxCalls
    /\ \E dur \in dlo..d, e \in {NilErr} \cup FnErrors :
          /\ elapsed' = elapsed + dur
          /\ err' = e
          /\ trace' = Append(trace, IF e = NilErr THEN "ok" ELSE "fail")
    /\ pc' = "test"
    /\ UNCHANGED <<interval, timeout, dlo, d, result, utilVars>>

\* Variant: return nil is reached whatever fn returned.
ReturnNilUnguarded ==
    /\ pc = "test"
    /\ result' = NilErr
    /\ pc' = "done"
    /\ UNCHANGED <<interval, timeout, dlo, d, elapsed, err, trace, utilVars>>

\* if err != nil { ... } return nil
ReturnNil ==
    /\ pc = "test"
    /\ err = NilErr
    /\ result' = NilErr
    /\ pc' = "done"
    /\ UNCHANGED <<interval, timeout, dlo, d, elapsed, err, trace, utilVars>>

\* Variant: the error of fn is returned once the deadline has passed.
ReturnLastErr ==
    /\ pc = "test"
    /\ err # NilErr
    /\ DeadlinePassed
    /\ result' = err
    /\ pc' = "done"
    /\ UNCHANGED <<interval, timeout, dlo, d, elapsed, err, trace, utilVars>>

\* if time.Since(start) > timeout { return errors.New("timeout reached") }
ReturnTimeout ==
    /\ pc = "test"
    /\ err # NilErr
    /\ DeadlinePassed
    /\ result' = TimeoutErr
    /\ pc' = "done"
    /\ UNCHANGED <<interval, timeout, dlo, d, elapsed, err, trace, utilVars>>

\* Variant: the loop continues without sleeping.
ContinueWithoutSleep ==
    /\ pc = "test"
    /\ err # NilErr
    /\ ~DeadlinePassed
    /\ pc' = "call"
    /\ UNCHANGED <<interval, timeout, dlo, d, elapsed, err, result, trace, utilVars>>

\* log.Printf(...); time.Sleep(interval); continue
SleepAndContinue ==
    /\ pc = "test"
    /\ err # NilErr
    /\ ~DeadlinePassed
    /\ elapsed' = elapsed + SleepTicks(interval)
    /\ trace' = Append(trace, "sleep")
    /\ pc' = "call"
    /\ UNCHANGED <<interval, timeout, dlo, d, err, result, utilVars>>

RetryNext ==
    \/ FnCall
    \/ ReturnNil
    \/ ReturnTimeout
    \/ SleepAndContinue

Spec == RetryInit /\ [][RetryNext]_vars

\* The goroutine keeps running: a step that can be taken is taken.
FairSpec == Spec /\ WF_vars(RetryNext)

----------------------------------------------------------------------------
(* Strings, values and regular expressions *)

MaxStrLen == 3
MaxLongLen == 65

LowerLetters == {"a", "b", "c", "d", "e", "f", "g", "h", "i", "j", "k", "l", "m",
                 "n", "o", "p", "q", "r", "s", "t", "u", "v", "w", "x", "y", "z"}
UpperLetters == {"A", "B", "C", "D", "E", "F", "G", "H", "I", "J", "K", "L", "M",
                 "N", "O", "P", "Q", "R", "S", "T", "U", "V", "W", "X", "Y", "Z"}
DigitChars == <<"0", "1", "2", "3", "4", "5", "6", "7", "8", "9">>
Digits == {DigitChars[k] : k \in 1..10}

\* the class \s of Go's regexp: [\t\n\f\r ]
IsSpace(c) == c \in {"\t", "\n", "\f", "\r", " "}

\* Variant: the class without the dot.
InNameClassNoDot(c) == c \in LowerLetters \cup UpperLetters \cup Digits \cup {"-", "_"}

\* the class [a-zA-Z0-9-_.]
InNameClass(c) == c \in LowerLetters \cup UpperLetters \cup Digits \cup {"-", "_", "."}

\* regexp.MustCompile(`\s+`).Match: some non-empty run of \s occurs in value
MatchWhiteSpace(value) ==
    \E i \in 1..Len(value) : \E j \in i..Len(value) :
        \A k \in i..j : IsSpace(value[k])

\* regexp.MustCompile(`^[a-zA-Z0-9-_.]+$`).Match: $ is the end of the text
MatchNameChars(value) ==
    /\ Len(value) >= 1
    /\ \A k \in 1..Len(value) : InNameClass(value[k])

SeqsUpTo(S, n) == UNION {[1..k -> S] : k \in 0..n}

Str(val) == [type |-> "string", val |-> val]

\* n characters "a", the p-th one (if any) a space
LongString(n, p) == [i \in 1..n |-> IF i = p THEN " " ELSE "a"]

NameAlphabet == {"a", "Z", "7", "-", "_", ".", " ", "\t", "!"}
IntAlphabet == {"1", "0", "G", "-", "+", "a"}
IDAlphabet == {"a", "b", ":"}

ExampleStrings ==
    { <<"b", "a", "d", " ", "n", "a", "m", "e", "!">>,
      <<"b", "a", "d", "!", "n", "a", "m", "e">>,
      <<"m", "y", "-", "n", "a", "m", "e", "_", "1", ".", "x">>,
      <<"a", "b", "c", "\n">>,
      <<"1", "0", "G">>,
      <<"a", "b", "c">>,
      <<"1", "G", "2", "G">>,
      <<"-", "4", "2", "G">>,
      <<"G", "9", "0", "7">>,
      <<"f", "l", "a", "n", "n", "e", "l">>,
      <<"c", "i", "l", "i", "u", "m">>,
      <<"c", "a", "l", "i", "c", "o">>,
      <<"a", "b", ":", "b", ":", "a">> }

Strings ==
    SeqsUpTo(NameAlphabet, MaxStrLen)
        \cup SeqsUpTo(IntAlphabet, MaxStrLen)
        \cup SeqsUpTo(IDAlphabet, MaxStrLen + 1)
        \cup {LongString(n, p) : n \in (MaxLongLen - 4)..MaxLongLen, p \in 0..MaxLongLen}
        \cup ExampleStrings

\* values of interface{} that are not strings: an int, nil, a bool, a []byte
NonStrings ==
    { [type |-> "int", val |-> <<"4", "2">>],
      [type |-> "nil", val |-> <<>>],
      [type |-> "bool", val |-> <<"t", "r", "u", "e">>],
      [type |-> "[]byte", val |-> <<"a", "b">>] }

Values == {Str(x) : x \in Strings} \cup NonStrings

\* value, ok := v.(string)
AssertString(v) ==
    [value |-> IF v.type = "string" THEN v.val ELSE <<>>, ok |-> v.type = "string"]

RECURSIVE Itoa(_)
\* %d of fmt, for n >= 0
Itoa(n) == IF n < 10 THEN <<DigitChars[n + 1]>> ELSE Append(Itoa(n \div 10), DigitChars[(n % 10) + 1])

\* fmt.Errorf(format, arg)
Errorf(format, arg) == [msg |-> format, arg |-> arg]

----------------------------------------------------------------------------
(* The validators *)

MaxNameLen == 63

Returned(warns, errs) == [panicked |-> FALSE, ws |-> warns, es |-> errs]

ValidateName(v) ==
    LET a == AssertString(v) IN
    IF ~a.ok
      THEN Returned(<<>>, <<Errorf("expected name to be string", <<>>)>>)
      ELSE IF MatchWhiteSpace(a.value)
        THEN Returned(<<>>, <<Errorf("name cannot contain whitespace. Got %s", a.value)>>)
        ELSE Returned(<<>>, <<>>)

ValidateCNIName(v) ==
    LET a == AssertString(v) IN
    IF ~a.ok
      THEN Returned(<<>>, <<Errorf("expected CNI to be string", <<>>)>>)
      ELSE IF MatchWhiteSpace(a.value)
        THEN Returned(<<>>, <<Errorf("CNI cannot contain whitespace. Got %s", a.value)>>)
        ELSE IF a.value # <<"f", "l", "a", "n", "n", "e", "l">> /\ a.value # <<"c", "i", "l", "i", "u", "m">>
          THEN Returned(<<>>, <<Errorf("CNI plugin provided isn't valid/supported", <<>>)>>)
          ELSE Returned(<<>>, <<>>)

\* Variant: names of 63 bytes are rejected too.
NameTooLongFrom63(value) == Len(value) >= MaxNameLen

\* len(value) > 63
NameTooLong(value) == Len(value) > MaxNameLen

ValidateNameSize(v) ==
    LET a == AssertString(v) IN
    IF ~a.ok
      THEN Returned(<<>>, <<Errorf("expected name to be string", <<>>)>>)
      ELSE IF MatchWhiteSpace(a.value)
        THEN Returned(<<>>, <<Errorf("name cannot contain whitespace. Got %s", a.value)>>)
        ELSE IF NameTooLong(a.value)
          THEN Returned(<<>>, <<Errorf("the len of the name has to be less than 63. Got %d", Itoa(Len(a.value)))>>)
          ELSE Returned(<<>>, <<>>)

Diagnostic(summary, detail, arg) ==
    [severity |-> "Error", summary |-> summary, detail |-> detail, arg |-> arg]

\* value := v.(string) panics when v holds no string; otherwise the three
\* tests run one after the other, each appending to diags.
ValidateNameOnlyContainsAlphanumericCharacters(v) ==
    IF v.type # "string"
      THEN [panicked |-> TRUE, diags |-> <<>>]
      ELSE
        LET value == v.val
            ok == AssertString(v).ok
            d1 == IF ~ok
                    THEN <<Diagnostic("wrong value", "expected name to be string", <<>>)>>
                    ELSE <<>>
            d2 == IF MatchWhiteSpace(value)
                    THEN Append(d1, Diagnostic("cannot contain whitespace",
                                               "name cannot contain whitespace. Got %s", value))
                    ELSE d1
            d3 == IF ~MatchNameChars(value)
                    THEN Append(d2, Diagnostic("alphanumeric characters",
                                               "name can only contain alphanumeric characters, hyphens, underscores and dots. Got %s", value))
                    ELSE d2
        IN [panicked |-> FALSE, diags |-> d3]

----------------------------------------------------------------------------
(* ResourceCommonParseID *)

\* strings.Index(s, c): the first place of c in s, 0 when there is none
Index(s, c) ==
    IF \E i \in 1..Len(s) : s[i] = c
      THEN CHOOSE i \in 1..Len(s) : s[i] = c /\ \A j \in 1..(i - 1) : s[j] # c
      ELSE 0

\* Variant: the string is cut at its last colon.
SplitAtLast(s, sep) ==
    IF \E i \in 1..Len(s) : s[i] = sep
      THEN LET i == CHOOSE k \in 1..Len(s) : s[k] = sep /\ \A j \in (k + 1)..Len(s) : s[j] # sep
           IN <<SubSeq(s, 1, i - 1), SubSeq(s, i + 1, Len(s))>>
      ELSE <<s>>

\* strings.SplitN(s, sep, 2): at most two parts, the second one the unsplit rest
SplitN2(s, sep) ==
    LET i == Index(s, sep) IN
    IF i = 0 THEN <<s>> ELSE <<SubSeq(s, 1, i - 1), SubSeq(s, i + 1, Len(s))>>

ResourceCommonParseID(id) ==
    LET parts == SplitN2(id, ":") IN
    IF Len(parts) # 2 \/ parts[1] = <<>> \/ parts[2] = <<>>
      THEN [first |-> <<>>, second |-> <<>>,
            err |-> Errorf("unexpected format of ID (%s), expected attribute1:attribute2", id)]
      ELSE [first |-> parts[1], second |-> parts[2], err |-> Errorf("nil", <<>>)]

----------------------------------------------------------------------------
(* StringToInt *)

RECURSIVE RemoveAll(_, _)
\* Variant: every occurrence of old is removed.
RemoveAll(s, old) ==
    IF s = <<>> THEN <<>>
    ELSE IF s[1] = old THEN RemoveAll(Tail(s), old)
    ELSE <<s[1]>> \o RemoveAll(Tail(s), old)

\* strings.Replace(s, old, "", 1): the first occurrence of old is removed
RemoveFirst(s, old) ==
    LET i == Index(s, old) IN
    IF i = 0 THEN s ELSE SubSeq(s, 1, i - 1) \o SubSeq(s, i + 1, Len(s))

SyntaxError(s) == [i |-> 0, err |-> Errorf("strconv.Atoi: parsing %s: invalid syntax", s)]

RECURSIVE AtoiDigits(_, _)
\* the loop of strconv.Atoi over the bytes after the sign: -1 on a byte
\* that is no digit, else the number read
AtoiDigits(s, n) ==
    IF s = <<>> THEN n
    ELSE IF s[1] \notin Digits THEN 0 - 1
    ELSE AtoiDigits(Tail(s), n * 10 + ((CHOOSE k \in 1..10 : DigitChars[k] = s[1]) - 1))

\* strconv.Atoi on a string short enough for its fast path (fewer than 10
\* bytes), or empty
Atoi(s0) ==
    IF Len(s0) = 0 THEN SyntaxError(s0)
    ELSE
      LET signed == s0[1] = "-" \/ s0[1] = "+"
          s == IF signed THEN Tail(s0) ELSE s0
      IN IF Len(s) < 1 THEN SyntaxError(s0)
         ELSE LET n == AtoiDigits(s, 0) IN
              IF n < 0 THEN SyntaxError(s0)
              ELSE [i |-> IF s0[1] = "-" THEN 0 - n ELSE n, err |-> Errorf("nil", <<>>)]

StringToInt(s) ==
    LET r == Atoi(RemoveFirst(s, "G")) IN
    IF r.err.msg # "nil" THEN [i |-> 0, err |-> r.err] ELSE [i |-> r.i, err |-> Errorf("nil", <<>>)]

----------------------------------------------------------------------------
(* The functions applied to one input *)

UtilInit ==
    /\ input \in Values
    /\ op = "none"
    /\ out = <<>>
    /\ pc = "idle"
    /\ interval = 0
    /\ timeout = 0
    /\ dlo = 0
    /\ d = 0
    /\ elapsed = 0
    /\ err = NilErr
    /\ result = "none"
    /\ trace = <<>>

CallValidateName ==
    /\ op = "none"
    /\ op' = "ValidateName"
    /\ out' = ValidateName(input)
    /\ UNCHANGED <<input, retryVars>>

CallValidateCNIName ==
    /\ op = "none"
    /\ op' = "ValidateCNIName"
    /\ out' = ValidateCNIName(input)
    /\ UNCHANGED <<input, retryVars>>

CallValidateNameSize ==
    /\ op = "none"
    /\ op' = "ValidateNameSize"
    /\ out' = ValidateNameSize(input)
    /\ UNCHANGED <<input, retryVars>>

CallValidateNameOnlyContainsAlphanumericCharacters ==
    /\ op = "none"
    /\ op' = "ValidateNameOnlyContainsAlphanumericCharacters"
    /\ out' = ValidateNameOnlyContainsAlphanumericCharacters(input)
    /\ UNCHANGED <<input, retryVars>>

\* the parameter is a string
CallResourceCommonParseID ==
    /\ op = "none"
    /\ input.type = "string"
    /\ op' = "ResourceCommonParseID"
    /\ out' = ResourceCommonParseID(input.val)
    /\ UNCHANGED <<input, retryVars>>

\* the parameter is a string
CallStringToInt ==
    /\ op = "none"
    /\ input.type = "string"
    /\ op' = "StringToInt"
    /\ out' = StringToInt(input.val)
    /\ UNCHANGED <<input, retryVars>>

UtilNext ==
    \/ CallValidateName
    \/ CallValidateCNIName
    \/ CallValidateNameSize
    \/ CallValidateNameOnlyContainsAlphanumericCharacters
    \/ CallResourceCommonParseID
    \/ CallStringToInt

UtilSpec == UtilInit /\ [][UtilNext]_vars

----------------------------------------------------------------------------
(* Properties of RetryUntilSuccessOrTimeout *)

Last(s) == s[Len(s)]

\* C1: success (nil) is returned only when an invocation of fn returned no
\* error, and that invocation is the last step of the run: the only "ok" of
\* the trace is its last entry, so no invocation and no sleep follows it.
C1_SuccessIsLastStep ==
    /\ result = NilErr =>
          /\ trace # <<>>
          /\ Last(trace) = "ok"
          /\ err = NilErr
          /\ pc = "done"
    /\ \A i \in 1..Len(trace) : trace[i] = "ok" => i = Len(trace)

C1_Witness ==
    /\ result = NilErr
    /\ trace = <<"fail", "sleep", "ok">>

\* C2: fn is invoked at least once before elapsed time is ever compared
\* with the timeout: the comparison is only made at "test", which is only
\* reached by an invocation; no run returns the timeout error with zero
\* invocations, and a first invocation that succeeds yields success
\* whatever the timeout.
C2_CallBeforeDeadlineCheck ==
    /\ pc = "test" => calls >= 1
    /\ result = TimeoutErr => calls >= 1
    /\ (pc = "done" /\ trace # <<>> /\ trace[1] = "ok") => result = NilErr
    /\ pc = "done" => calls >= 1

C2_Witness ==
    /\ result = TimeoutErr
    /\ timeout < elapsed
    /\ timeout <= 0
    /\ calls = 1

C2_WitnessFirstCallSucceeds ==
    /\ result = NilErr
    /\ timeout < 0
    /\ trace = <<"ok">>

\* C3: the only error ever returned is the fixed "timeout reached", only
\* right after a failed invocation at which the elapsed time strictly
\* exceeds the timeout; the error fn returned is never the returned value.
C3_OnlyTimeoutError ==
    /\ result \in {"none", NilErr, TimeoutErr}
    /\ result \notin FnErrors
    /\ result = TimeoutErr =>
          /\ trace # <<>>
          /\ Last(trace) = "fail"
          /\ err \in FnErrors
          /\ elapsed > timeout

C3_Witness ==
    /\ result = TimeoutErr
    /\ err = "e2"
    /\ calls >= 2

\* The trace alternates strictly: invocations at the odd places, sleeps at
\* the even ones, every invocation but the last one a failure.
C4_Alternates ==
    /\ \A i \in 1..Len(trace) : (trace[i] = "sleep") <=> (i % 2 = 0)
    /\ \A i \in 1..(Len(trace) - 1) : (i % 2 = 1) => trace[i] = "fail"
    /\ pc = "call" => Len(trace) % 2 = 0
    /\ pc \in {"test", "done"} => Len(trace) % 2 = 1
    /\ result = NilErr =>
          /\ calls = CountOf("fail") + 1
          /\ sleeps = CountOf("fail")

\* C4: whenever an invocation fails with the elapsed time within the
\* timeout, the next step is one sleep of the constant interval, and the
\* step after a sleep is an invocation of fn; so k failures within the
\* timeout followed by a success make k+1 invocations and k sleeps,
\* strictly alternating, and the run returns success.
C4_SleepOnceThenRetry ==
    [][ /\ (pc = "test" /\ err # NilErr /\ elapsed <= timeout) =>
              /\ pc' = "call"
              /\ trace' = Append(trace, "sleep")
              /\ elapsed' = elapsed + SleepTicks(interval)
              /\ interval' = interval
              /\ result' = "none"
        /\ (pc = "call" /\ trace # <<>>) =>
              /\ Last(trace) = "sleep"
              /\ pc' = "test"
              /\ Len(trace') = Len(trace) + 1
              /\ Last(trace') \in {"ok", "fail"}
        /\ (pc = "test" /\ err = NilErr) => result' = NilErr
        /\ C4_Alternates' ]_vars

C4_Witness ==
    /\ result = NilErr
    /\ trace = <<"fail", "sleep", "fail", "sleep", "ok">>
    /\ interval = 1
    /\ elapsed <= timeout

C5_Bound == Max(timeout, 0) + SleepTicks(interval) + d

----------------------------------------------------------------------------
(* Properties of the validators, ResourceCommonParseID and StringToInt *)

Validators ==
    {"ValidateName", "ValidateCNIName", "ValidateNameSize",
     "ValidateNameOnlyContainsAlphanumericCharacters"}

HasWhiteSpace(s) == \E i \in 1..Len(s) : s[i] \in {" ", "\t", "\n", "\r", "\f"}

\* C6: for every input that is not a string, every validator returns
\* normally, with exactly one type-mismatch error and no warnings.
C6_NonStringOneTypeError ==
    (op \in Validators /\ input.type # "string") =>
        /\ ~out.panicked
        /\ IF op = "ValidateNameOnlyContainsAlphanumericCharacters"
             THEN /\ Len(out.diags) = 1
                  /\ out.diags[1].detail = "expected name to be string"
             ELSE /\ out.ws = <<>>
                  /\ Len(out.es) = 1
                  /\ out.es[1].msg \in {"expected name to be string", "expected CNI to be string"}

IsLenError(e) == e.msg = "the len of the name has to be less than 63. Got %d"
IsWhiteSpaceError(e) == e.msg = "name cannot contain whitespace. Got %s"

\* C7 as stated: every string longer than 63 gets a length error from
\* ValidateNameSize, every string of length 63 gets no error.
C7_Original ==
    (op = "ValidateNameSize" /\ input.type = "string") =>
        /\ Len(input.val) > 63 => \E i \in 1..Len(out.es) : IsLenError(out.es[i])
        /\ Len(input.val) = 63 => out.es = <<>>

\* C7 amended: for every string without whitespace, ValidateNameSize returns
\* the length error (alone, with the length in it) when the string is longer
\* than 63 bytes and no error when it has 63 bytes or fewer; a string with
\* whitespace gets the whitespace error alone, whatever its length.
C7_SizeOfNamesWithoutWhiteSpace ==
    (op = "ValidateNameSize" /\ input.type = "string") =>
        /\ ~out.panicked
        /\ out.ws = <<>>
        /\ (~HasWhiteSpace(input.val) /\ Len(input.val) > 63) =>
              /\ Len(out.es) = 1
              /\ IsLenError(out.es[1])
              /\ out.es[1].arg = Itoa(Len(input.val))
        /\ (~HasWhiteSpace(input.val) /\ Len(input.val) <= 63) => out.es = <<>>
        /\ HasWhiteSpace(input.val) =>
              /\ Len(out.es) = 1
              /\ IsWhiteSpaceError(out.es[1])

C7_Witness ==
    /\ op = "ValidateNameSize"
    /\ input.type = "string"
    /\ Len(input.val) = 64
    /\ ~HasWhiteSpace(input.val)
    /\ Len(out.es) = 1
    /\ out.es[1].arg = <<"6", "4">>

C7_Witness63 ==
    /\ op = "ValidateNameSize"
    /\ input.type = "string"
    /\ Len(input.val) = 63
    /\ out.es = <<>>

C8_Allowed(c) ==
    c \in LowerLetters \cup UpperLetters \cup Digits \cup {"-", "_", "."}

C8_Summaries == [i \in 1..Len(out.diags) |-> out.diags[i].summary]

\* C8: on a string, ValidateNameOnlyContainsAlphanumericCharacters returns no
\* diagnostics exactly when the string is non-empty and made of letters,
\* digits, hyphen, underscore and dot only; otherwise it returns the
\* character-set diagnostic, preceded by the whitespace diagnostic exactly
\* when the string contains whitespace.
C8_AlphanumericDiagnostics ==
    (op = "ValidateNameOnlyContainsAlphanumericCharacters" /\ input.type = "string") =>
        LET value == input.val
            clean == value # <<>> /\ \A i \in 1..Len(value) : C8_Allowed(value[i])
        IN /\ ~out.panicked
           /\ clean <=> out.diags = <<>>
           /\ (~clean /\ HasWhiteSpace(value)) =>
                 C8_Summaries = <<"cannot contain whitespace", "alphanumeric characters">>
           /\ (~clean /\ ~HasWhiteSpace(value)) =>
                 C8_Summaries = <<"alphanumeric characters">>
           /\ \A i \in 1..Len(out.diags) :
                 /\ out.diags[i].severity = "Error"
                 /\ out.diags[i].arg = value
           /\ value = <<"b", "a", "d", " ", "n", "a", "m", "e", "!">> => Len(out.diags) = 2
           /\ value = <<"b", "a", "d", "!", "n", "a", "m", "e">> => Len(out.diags) = 1

C8_Witness ==
    /\ op = "ValidateNameOnlyContainsAlphanumericCharacters"
    /\ input = Str(<<"b", "a", "d", " ", "n", "a", "m", "e", "!">>)
    /\ Len(out.diags) = 2

C8_WitnessClean ==
    /\ op = "ValidateNameOnlyContainsAlphanumericCharacters"
    /\ input = Str(<<"m", "y", "-", "n", "a", "m", "e", "_", "1", ".", "x">>)
    /\ out.diags = <<>>

\* s without its first "G" (s itself when it has none)
C9_Remainder(s) ==
    IF \A i \in 1..Len(s) : s[i] # "G"
      THEN s
      ELSE LET k == CHOOSE k \in 1..Len(s) : s[k] = "G" /\ \A j \in 1..(k - 1) : s[j] # "G"
           IN [i \in 1..(Len(s) - 1) |-> IF i < k THEN s[i] ELSE s[i + 1]]

\* an optional sign followed by one or more decimal digits
C9_IsInteger(r) ==
    \E sign \in {0, 1} :
        /\ Len(r) > sign
        /\ sign = 1 => r[1] \in {"+", "-"}
        /\ \A i \in (sign + 1)..Len(r) : r[i] \in {"0", "1", "2", "3", "4", "5", "6", "7", "8", "9"}

RECURSIVE C9_Pow10(_)
C9_Pow10(n) == IF n = 0 THEN 1 ELSE 10 * C9_Pow10(n - 1)

RECURSIVE C9_Sum(_, _)
C9_Sum(r, i) ==
    IF i > Len(r) THEN 0
    ELSE ((CHOOSE k \in 0..9 : DigitChars[k + 1] = r[i]) * C9_Pow10(Len(r) - i)) + C9_Sum(r, i + 1)

C9_Value(r) ==
    IF r[1] = "-" THEN 0 - C9_Sum(r, 2)
    ELSE IF r[1] = "+" THEN C9_Sum(r, 2)
    ELSE C9_Sum(r, 1)

\* C9: StringToInt removes the first "G" (if any) and parses the rest as a
\* decimal integer: (n, nil) when the rest is the integer n, (0, err) with
\* a non-nil err when it is not; "10G" gives (10, nil), "abc" gives (0, err).
C9_StringToInt ==
    op = "StringToInt" =>
        LET r == C9_Remainder(input.val) IN
        /\ IF C9_IsInteger(r)
             THEN out.i = C9_Value(r) /\ out.err.msg = "nil"
             ELSE out.i = 0 /\ out.err.msg # "nil"
        /\ input.val = <<"1", "0", "G">> => (out.i = 10 /\ out.err.msg = "nil")
        /\ input.val = <<"a", "b", "c">> => (out.i = 0 /\ out.err.msg # "nil")
        /\ input.val = <<>> => (out.i = 0 /\ out.err.msg # "nil")
        /\ input.val = <<"1", "G", "2", "G">> => (out.i = 0 /\ out.err.msg # "nil")

C9_Witness ==
    /\ op = "StringToInt"
    /\ input.val = <<"1", "0", "G">>
    /\ out.i = 10
    /\ out.err.msg = "nil"

C9_WitnessSecondG ==
    /\ op = "StringToInt"
    /\ input.val = <<"1", "G", "2", "G">>
    /\ out.i = 0
    /\ out.err.msg # "nil"

\* C10: ResourceCommonParseID splits at the first colon only: when the
\* first colon has a non-empty part on both sides, these two parts are
\* returned with a nil error (the second may hold colons) and joining them
\* with ":" gives the id back; every other id gives ("", "", error).
C10_ParseIDRoundTrip ==
    op = "ResourceCommonParseID" =>
        LET id == input.val
            cuts == {i \in 2..(Len(id) - 1) :
                        id[i] = ":" /\ \A j \in 1..(i - 1) : id[j] # ":"}
        IN /\ \A i \in cuts :
                 /\ out.first = SubSeq(id, 1, i - 1)
                 /\ out.second = SubSeq(id, i + 1, Len(id))
                 /\ out.err.msg = "nil"
           /\ cuts = {} =>
                 /\ out.first = <<>>
                 /\ out.second = <<>>
                 /\ out.err.msg # "nil"
                 /\ out.err.arg = id
           /\ out.err.msg = "nil" =>
                 /\ out.first \o <<":">> \o out.second = id
                 /\ out.first # <<>>
                 /\ out.second # <<>>
                 /\ \A j \in 1..Len(out.first) : out.first[j] # ":"

C10_Witness ==
    /\ op = "ResourceCommonParseID"
    /\ input.val = <<"a", "b", ":", "b", ":", "a">>
    /\ out.first = <<"a", "b">>
    /\ out.second = <<"b", ":", "a">>
    /\ out.err.msg = "nil"

====
